---- MODULE Spec2Model ----
(***************************************************************************)
(* Model of devtools.label (the label Registry, the register decorator and *)
(* the lookup functions) and of devtools.testing (check_signature and      *)
(* check_properties).                                                      *)
(*                                                                         *)
(* Python objects are modelled by natural numbers: 0 is a hashable object  *)
(* that is not callable, 1 and 2 are the plain functions f and g, and the  *)
(* closures _inner created by the decorator get the next free numbers.     *)
(* Every action is one call of the public API made by a client program;    *)
(* ret records what that call did: its arguments, the value returned or    *)
(* the exception raised (exc), the warnings emitted (warns, of which the   *)
(* first `before` precede the delegation), the calls made to the wrapped   *)
(* callable (direct) and to plain functions (calls).                       *)
(* For the two checkers of devtools.testing ret holds the call itself: the *)
(* object or callable under test, the expected values and, once the call   *)
(* is made, the exception raised.                                          *)
(***************************************************************************)
EXTENDS Integers, Sequences, FiniteSets, TLC

\* ---------------------------------------------------------------- bounds
MaxNames == 3        \* longest label sequence given to register
MaxDecorated == 1    \* decorations in a run that draws every label sequence
MaxWrappers == 2     \* decorations in a run that draws a few label sequences
MaxItems == 2        \* longest collection given to a bulk lookup
MaxMask == 7         \* largest bitmask stored by a direct set

\* ------------------------------------------------------- label enumeration
LabelEnum == [deprecated |-> 0, pure |-> 1, idempotent |-> 2]

LabelName(c) == CHOOSE n \in DOMAIN LabelEnum : LabelEnum[n] = c

IsLabelValue(c) == \E n \in DOMAIN LabelEnum : LabelEnum[n] = c

\* what a client passes to register: every sequence of label names, and
\* sequences with a name that is no label at each position
LabelSeqs == UNION {[1..n -> DOMAIN LabelEnum] : n \in 0..MaxNames}

StrangerSeqs ==
    UNION {{[i \in 1..n |-> IF i = k THEN "bogus" ELSE "pure"] : k \in 1..n} :
             n \in 1..MaxNames}

NameSeqs == LabelSeqs \cup StrangerSeqs

\* ------------------------------------------------------------ the objects
NonCallables == {0}

Originals == {1, 2}

OrigName == <<"f", "g">>

Classes == {"Base", "Sub"}

Args == {0, 1}       \* the argument a wrapped callable is invoked with

\* result of the plain function c applied to x
OrigResult(c, x) == 10 * c + x

\* Python values that are passed as, or returned in place of, label lists
NoneVal == [kind |-> "None", list |-> <<>>]

ListVal(l) == [kind |-> "list", list |-> l]

Defaults == {NoneVal, ListVal(<<>>), ListVal(<<"pure">>), [kind |-> "int", list |-> <<>>]}

\* a backing store (the dict __data): its items in insertion order
EmptyStore == <<>>

Keys(store) == {store[i].k : i \in 1..Len(store)}

Has(store, key) == key \in Keys(store)

Lookup(store, key) == store[CHOOSE i \in 1..Len(store) : store[i].k = key].v

\* cache:   _Registry.__cache, the instance of each class (0: none yet);
\*          instances are numbered in the order of their creation
\* data:    the backing store __data of each instance
\* wrapped: for each closure _inner, the callable clb it wraps, the name
\*          wraps() copied from it and the Registry reg it reads
\* ret:     the outcome of the last call
VARIABLES cache, data, wrapped, ret

vars == <<cache, data, wrapped, ret>>

Wrappers == DOMAIN wrapped

Callables == Originals \cup Wrappers

Name(c) == IF c \in Originals THEN OrigName[c] ELSE wrapped[c].name

callable(x) == x \notin NonCallables

Blank == [op |-> "none", cls |-> "", self |-> 0, clb |-> 0, names |-> <<>>,
          items |-> <<>>, arg |-> 0, nargs |-> 0, given |-> FALSE,
          dflt |-> NoneVal, exc |-> "", val |-> NoneVal, map |-> {},
          warns |-> <<>>, before |-> 0, calls |-> <<>>, direct |-> <<>>,
          num |-> 0]

\* ------------------------------------------------------ _Registry.__new__
\* cls(*args): the cache, the stores and the instance after the call.
\* object.__new__ takes no further argument from a class that overrides
\* __new__: with arguments the first construction raises TypeError.
ConstructFresh(cch, dat, cls, nargs) ==
    [exc |-> "", cache |-> [cch EXCEPT ![cls] = Len(dat) + 1],
     data |-> Append(dat, EmptyStore), inst |-> Len(dat) + 1]

Construct(cch, dat, cls, nargs) ==
    IF cch[cls] = 0
    THEN IF nargs > 0
         THEN [exc |-> "TypeError", cache |-> cch, data |-> dat, inst |-> 0]
         ELSE ConstructFresh(cch, dat, cls, nargs)
    ELSE [exc |-> "", cache |-> cch, data |-> dat, inst |-> cch[cls]]

New(cls, nargs) ==
    LET r == Construct(cache, data, cls, nargs) IN
    /\ cache' = r.cache
    /\ data' = r.data
    /\ ret' = [Blank EXCEPT !.op = "new", !.cls = cls, !.nargs = nargs,
                            !.exc = r.exc, !.self = r.inst]
    /\ UNCHANGED wrapped

\* ------------------------------------- _Registry.__setitem__/__delitem__
\* a set that moves the entry it overwrites to the end
StoreSetMoveToEnd(store, clb, val) ==
    Append(SelectSeq(store, LAMBDA e : e.k # clb), [k |-> clb, v |-> val])

StoreSet(store, clb, val) ==
    IF Has(store, clb)
    THEN [i \in 1..Len(store) |->
            IF store[i].k = clb THEN [k |-> clb, v |-> val] ELSE store[i]]
    ELSE Append(store, [k |-> clb, v |-> val])

\* a delete that removes the newest entry
StoreDelNewest(store, clb) == SubSeq(store, 1, Len(store) - 1)

StoreDel(store, clb) == SelectSeq(store, LAMBDA e : e.k # clb)

SetItem(self, clb, val) ==
    /\ self \in 1..Len(data)
    /\ data' = [data EXCEPT ![self] = StoreSet(data[self], clb, val)]
    /\ ret' = [Blank EXCEPT !.op = "set", !.self = self, !.clb = clb, !.num = val]
    /\ UNCHANGED <<cache, wrapped>>

DelItem(self, clb) ==
    /\ self \in 1..Len(data)
    /\ IF Has(data[self], clb)
       THEN /\ data' = [data EXCEPT ![self] = StoreDel(data[self], clb)]
            /\ ret' = [Blank EXCEPT !.op = "del", !.self = self, !.clb = clb]
       ELSE /\ data' = data
            /\ ret' = [Blank EXCEPT !.op = "del", !.self = self, !.clb = clb,
                                    !.exc = "KeyError"]
    /\ UNCHANGED <<cache, wrapped>>

\* ------------------------ _Registry.__getitem__, __iter__ and __len__
GetItem(self, item) ==
    /\ self \in 1..Len(data)
    /\ ret' = IF Has(data[self], item)
              THEN [Blank EXCEPT !.op = "get", !.self = self, !.clb = item,
                                 !.num = Lookup(data[self], item)]
              ELSE [Blank EXCEPT !.op = "get", !.self = self, !.clb = item,
                                 !.exc = "KeyError"]
    /\ UNCHANGED <<cache, data, wrapped>>

\* iter(self.__data): the keys in the order of the items
iter(store) == [i \in 1..Len(store) |-> store[i].k]

len(store) == Len(store)

\* list(reg)
Iterate(self) ==
    /\ self \in 1..Len(data)
    /\ ret' = [Blank EXCEPT !.op = "iter", !.self = self, !.items = iter(data[self])]
    /\ UNCHANGED <<cache, data, wrapped>>

\* len(reg)
Size(self) ==
    /\ self \in 1..Len(data)
    /\ ret' = [Blank EXCEPT !.op = "len", !.self = self, !.num = len(data[self])]
    /\ UNCHANGED <<cache, data, wrapped>>

\* ----------------------------------------------------- _Registry.get_info
\* get_info listing the labels from the highest bit down
RECURSIVE DecodeDescending(_, _, _)
DecodeDescending(n, c, labels) ==
    IF n > 0
    THEN IF n % 2 = 1
         THEN IF IsLabelValue(c)
              THEN DecodeDescending(n \div 2, c + 1, <<LabelName(c)>> \o labels)
              ELSE [exc |-> "ValueError", val |-> NoneVal]
         ELSE DecodeDescending(n \div 2, c + 1, labels)
    ELSE [exc |-> "", val |-> ListVal(labels)]

\* get_info leaving its loop after the first set bit
RECURSIVE DecodeLowestOnly(_, _, _)
DecodeLowestOnly(n, c, labels) ==
    IF n > 0 /\ labels = <<>>
    THEN IF n % 2 = 1
         THEN IF IsLabelValue(c)
              THEN DecodeLowestOnly(n \div 2, c + 1, Append(labels, LabelName(c)))
              ELSE [exc |-> "ValueError", val |-> NoneVal]
         ELSE DecodeLowestOnly(n \div 2, c + 1, labels)
    ELSE [exc |-> "", val |-> ListVal(labels)]

RECURSIVE Decode(_, _, _)
Decode(n, c, labels) ==
    IF n > 0
    THEN IF n % 2 = 1
         THEN IF IsLabelValue(c)
              THEN Decode(n \div 2, c + 1, Append(labels, LabelName(c)))
              ELSE [exc |-> "ValueError", val |-> NoneVal]
         ELSE Decode(n \div 2, c + 1, labels)
    ELSE [exc |-> "", val |-> ListVal(labels)]

\* get_info reading the entry before it tests callable(clb)
get_infoLookupFirst(store, clb) ==
    IF ~Has(store, clb)
    THEN IF ~callable(clb)
         THEN [exc |-> "ValueError", val |-> NoneVal]
         ELSE [exc |-> "KeyError", val |-> NoneVal]
    ELSE Decode(Lookup(store, clb), 0, <<>>)

get_info(store, clb) ==
    IF ~callable(clb)
    THEN [exc |-> "ValueError", val |-> NoneVal]
    ELSE IF ~Has(store, clb)
         THEN [exc |-> "KeyError", val |-> NoneVal]
         ELSE Decode(Lookup(store, clb), 0, <<>>)

\* ---------------------------------------------------------------- register
\* register skipping the names it does not know
RECURSIVE SumNamesSkipUnknown(_, _, _)
SumNamesSkipUnknown(names, i, acc) ==
    IF i > Len(names)
    THEN [exc |-> "", mask |-> acc, at |-> 0]
    ELSE IF names[i] \in DOMAIN LabelEnum
         THEN SumNamesSkipUnknown(names, i + 1, acc + 2 ^ LabelEnum[names[i]])
         ELSE SumNamesSkipUnknown(names, i + 1, acc)

RECURSIVE SumNames(_, _, _)
SumNames(names, i, acc) ==
    IF i > Len(names)
    THEN [exc |-> "", mask |-> acc, at |-> 0]
    ELSE IF names[i] \in DOMAIN LabelEnum
         THEN SumNames(names, i + 1, acc + 2 ^ LabelEnum[names[i]])
         ELSE [exc |-> "KeyError", mask |-> 0, at |-> i]

\* a decorator that hands out one and the same function object every time
InnerOnce == 1 + Cardinality(Originals)

\* def _inner: a new function object on every application of the decorator
NewInner == 1 + Cardinality(Callables)

RegCallable(names, clb) ==
    LET r == Construct(cache, data, "Base", 0)
        reg == r.inst
        inner == NewInner
        w == IF Has(r.data[reg], inner)
             THEN <<"already registered">> ELSE <<>>
        s == SumNames(names, 1, 0)
    IN
    /\ cache' = r.cache
    /\ IF s.exc = ""
       THEN /\ data' = [r.data EXCEPT ![reg] = StoreSet(r.data[reg], inner, s.mask)]
            /\ wrapped' = [c \in Wrappers \cup {inner} |->
                             IF c = inner
                             THEN [clb |-> clb, name |-> Name(clb), reg |-> reg]
                             ELSE wrapped[c]]
            /\ ret' = [Blank EXCEPT !.op = "register", !.names = names,
                                    !.arg = clb, !.clb = inner, !.self = reg,
                                    !.warns = w]
       ELSE /\ data' = r.data
            /\ wrapped' = wrapped
            /\ ret' = [Blank EXCEPT !.op = "register", !.arg = clb,
                                    !.self = reg, !.warns = w, !.exc = s.exc,
                                    !.num = s.at]

\* max caps the decorated callables a run creates
Register(names, clb, max) ==
    /\ SumNames(names, 1, 0).exc = "" => Cardinality(Wrappers) < max
    /\ RegCallable(names, clb)

\* ------------------------------------------------------------------ _inner
Bit(n, k) == (n \div (2 ^ k)) % 2

\* _inner testing the pure bit before the deprecated bit
OwnWarningsPureFirst(n) ==
    (IF Bit(n, LabelEnum["pure"]) = 1 THEN <<"Function is pure.">> ELSE <<>>)
    \o (IF Bit(n, LabelEnum["deprecated"]) = 1 THEN <<"Function is deprecated.">> ELSE <<>>)
    \o (IF Bit(n, LabelEnum["idempotent"]) = 1 THEN <<"Function is idempotent.">> ELSE <<>>)

OwnWarnings(n) ==
    (IF Bit(n, LabelEnum["deprecated"]) = 1 THEN <<"Function is deprecated.">> ELSE <<>>)
    \o (IF Bit(n, LabelEnum["pure"]) = 1 THEN <<"Function is pure.">> ELSE <<>>)
    \o (IF Bit(n, LabelEnum["idempotent"]) = 1 THEN <<"Function is idempotent.">> ELSE <<>>)

\* _inner taking the bitmask 0 when it has no entry (reg.get(_inner, 0))
RECURSIVE CallDefaultZero(_, _)
CallDefaultZero(c, x) ==
    IF c \in Originals
    THEN [exc |-> "", warns |-> <<>>, before |-> 0, calls |-> <<<<c, x>>>>,
          direct |-> <<>>, num |-> OrigResult(c, x)]
    ELSE LET store == data[wrapped[c].reg]
             n == IF Has(store, c) THEN Lookup(store, c) ELSE 0
             r == CallDefaultZero(wrapped[c].clb, x)
         IN [exc |-> r.exc, warns |-> OwnWarnings(n) \o r.warns,
             before |-> Len(OwnWarnings(n)), calls |-> r.calls,
             direct |-> <<<<wrapped[c].clb, x>>>>, num |-> r.num]

RECURSIVE Call(_, _)
Call(c, x) ==
    IF c \in Originals
    THEN [exc |-> "", warns |-> <<>>, before |-> 0, calls |-> <<<<c, x>>>>,
          direct |-> <<>>, num |-> OrigResult(c, x)]
    ELSE LET store == data[wrapped[c].reg] IN
         IF ~Has(store, c)
         THEN [exc |-> "KeyError", warns |-> <<>>, before |-> 0, calls |-> <<>>,
               direct |-> <<>>, num |-> 0]
         ELSE LET r == Call(wrapped[c].clb, x) IN
              [exc |-> r.exc, warns |-> OwnWarnings(Lookup(store, c)) \o r.warns,
               before |-> Len(OwnWarnings(Lookup(store, c))), calls |-> r.calls,
               direct |-> <<<<wrapped[c].clb, x>>>>, num |-> r.num]

Invoke(c, x) ==
    /\ c \in Wrappers
    /\ LET r == Call(c, x) IN
       ret' = [Blank EXCEPT !.op = "invoke", !.clb = c, !.arg = x,
                            !.exc = r.exc, !.warns = r.warns, !.calls = r.calls,
                            !.direct = r.direct, !.num = r.num,
                            !.before = r.before]
    /\ UNCHANGED <<cache, data, wrapped>>

\* -------------------------------------------------- get_info, called directly
GetInfo(self, clb) ==
    /\ self \in 1..Len(data)
    /\ LET r == get_info(data[self], clb) IN
       ret' = [Blank EXCEPT !.op = "get_info", !.self = self, !.clb = clb,
                            !.exc = r.exc, !.val = r.val]
    /\ UNCHANGED <<cache, data, wrapped>>

\* ------------------------------------------------------------------ getinfo
\* given = FALSE is the call getinfo(clb): val then has its default, None
\* getinfo testing the truth of val where the code tests val is None
getinfoFalsy(store, clb, val) ==
    LET r == get_info(store, clb) IN
    IF r.exc = "KeyError"
    THEN IF val = NoneVal \/ val.kind = "int" \/ (val.kind = "list" /\ val.list = <<>>)
         THEN r
         ELSE [exc |-> "", val |-> val]
    ELSE r

getinfo(store, clb, val) ==
    LET r == get_info(store, clb) IN
    IF r.exc = "KeyError"
    THEN IF val = NoneVal
         THEN r
         ELSE [exc |-> "", val |-> val]
    ELSE r

GetInfoOne(clb, given, dflt) ==
    LET c == Construct(cache, data, "Base", 0)
        val == IF given THEN dflt ELSE NoneVal
        r == getinfo(c.data[c.inst], clb, val)
    IN
    /\ cache' = c.cache
    /\ data' = c.data
    /\ ret' = [Blank EXCEPT !.op = "getinfo", !.self = c.inst, !.clb = clb,
                            !.given = given, !.dflt = val, !.exc = r.exc,
                            !.val = r.val]
    /\ UNCHANGED wrapped

\* -------------------------------------------------- getinfovars, getinfoiter
\* a dict as the set of its <<key, value>> items
\* a dict assignment that keeps the value a key already has
DictPutKeepFirst(info, key, val) ==
    IF \E p \in info : p[1] = key THEN info ELSE info \cup {<<key, val>>}

DictPut(info, key, val) == {p \in info : p[1] # key} \cup {<<key, val>>}

RECURSIVE VarsLoop(_, _, _, _)
VarsLoop(store, vs, i, info) ==
    IF i > Len(vs)
    THEN [exc |-> "", map |-> info]
    ELSE IF callable(vs[i])
         THEN LET r == get_info(store, vs[i]) IN
              IF r.exc = ""
              THEN VarsLoop(store, vs, i + 1, DictPut(info, Name(vs[i]), r.val.list))
              ELSE IF r.exc = "KeyError"
                   THEN VarsLoop(store, vs, i + 1, info)
                   ELSE [exc |-> r.exc, map |-> {}]
         ELSE VarsLoop(store, vs, i + 1, info)

RECURSIVE IterLoop(_, _, _, _)
IterLoop(store, iterable, i, info) ==
    IF i > Len(iterable)
    THEN [exc |-> "", map |-> info]
    ELSE IF callable(iterable[i])
         THEN LET r == get_info(store, iterable[i]) IN
              IF r.exc = ""
              THEN IterLoop(store, iterable, i + 1, DictPut(info, iterable[i], r.val.list))
              ELSE IF r.exc = "KeyError"
                   THEN IterLoop(store, iterable, i + 1, info)
                   ELSE [exc |-> r.exc, map |-> {}]
         ELSE IterLoop(store, iterable, i + 1, info)

\* vs is the sequence vs.values() of the given mapping
GetInfoVars(vs) ==
    LET c == Construct(cache, data, "Base", 0)
        r == VarsLoop(c.data[c.inst], vs, 1, {})
    IN
    /\ cache' = c.cache
    /\ data' = c.data
    /\ ret' = [Blank EXCEPT !.op = "getinfovars", !.self = c.inst, !.items = vs,
                            !.exc = r.exc, !.map = r.map]
    /\ UNCHANGED wrapped

GetInfoIter(iterable) ==
    LET c == Construct(cache, data, "Base", 0)
        r == IterLoop(c.data[c.inst], iterable, 1, {})
    IN
    /\ cache' = c.cache
    /\ data' = c.data
    /\ ret' = [Blank EXCEPT !.op = "getinfoiter", !.self = c.inst,
                            !.items = iterable, !.exc = r.exc, !.map = r.map]
    /\ UNCHANGED wrapped

\* ------------------------------------------------- testing.check_signature
\* Python values met in a signature: None, classes, strings, tuples, dicts
\* (a dict is the set of its <<key, value>> items)
NoneObj == [kind |-> "None", v |-> <<>>]

TypeObj(n) == [kind |-> "type", v |-> n]

StrObj(t) == [kind |-> "str", v |-> t]

TupleObj(t) == [kind |-> "tuple", v |-> t]

DictObj(d) == [kind |-> "dict", v |-> d]

\* the value of an annotation written e in the source
Eval(e) == IF e = "None" THEN NoneObj ELSE TypeObj(e)

\* __annotations__: the text of each annotation in a module compiled with
\* from __future__ import annotations, its value otherwise
RawAnnotations(clb) ==
    {<<p[1], IF clb.pep563 THEN StrObj(p[2]) ELSE Eval(p[2])>> : p \in clb.ann}

\* typing.get_type_hints: text is evaluated, None becomes NoneType
Hint(raw) ==
    LET e == IF raw.kind = "str" THEN Eval(raw.v) ELSE raw
    IN IF e = NoneObj THEN TypeObj("NoneType") ELSE e

get_type_hints(clb) == {<<p[1], Hint(p[2])>> : p \in RawAnnotations(clb)}

\* inspect.getfullargspec: the annotations are __annotations__ as they are
getfullargspec(clb) ==
    [annotations |-> RawAnnotations(clb), args |-> clb.args,
     varargs |-> clb.varargs, varkw |-> clb.varkw, defaults |-> clb.defaults,
     kwonlyargs |-> clb.kwonlyargs, kwonlydefaults |-> clb.kwonlydefaults]

SignatureAttrs == <<"annotations", "args", "varargs", "varkw", "defaults",
                    "kwonlyargs", "kwonlydefaults">>

\* the loop over the attributes: the first that differs fails the assert
RECURSIVE CompareAttrs(_, _, _)
CompareAttrs(gfas, expected, i) ==
    IF i > Len(SignatureAttrs)
    THEN [exc |-> "", at |-> ""]
    ELSE IF gfas[SignatureAttrs[i]] = expected[SignatureAttrs[i]]
         THEN CompareAttrs(gfas, expected, i + 1)
         ELSE [exc |-> "AssertionError", at |-> SignatureAttrs[i]]

\* expected holds the seven keyword arguments of the call
check_signature(clb, expected) ==
    IF expected.annotations = get_type_hints(clb)
    THEN CompareAttrs(getfullargspec(clb), expected, 1)
    ELSE [exc |-> "AssertionError", at |-> "get_type_hints"]

\* the call check_signature(clb, **expected) that a test is about to make
SignatureCall(clb, expected) ==
    [op |-> "call check_signature", clb |-> clb, expected |-> expected,
     exc |-> "", at |-> ""]

CheckSignature ==
    /\ ret.op = "call check_signature"
    /\ LET r == check_signature(ret.clb, ret.expected) IN
       ret' = [ret EXCEPT !.op = "check_signature", !.exc = r.exc, !.at = r.at]
    /\ UNCHANGED <<cache, data, wrapped>>

\* ------------------------------------------------ testing.check_properties
\* An object under test: the value of its __slots__ (None: it has none),
\* whether it has a __dict__, and what each attribute name is: "absent",
\* "inst" (a value in __dict__), "slot" (a slot holding a value), "empty" (a
\* slot holding none) or "prop" (a property of the class, with or without
\* fget, fset and fdel).
ListObj(l) == [kind |-> "list", v |-> l]

AttrNames == {"x", "y"}

Plain(k) == [kind |-> k, fget |-> FALSE, fset |-> FALSE, fdel |-> FALSE]

Property(g, s, d) == [kind |-> "prop", fget |-> g, fset |-> s, fdel |-> d]

\* getattr, setattr and delattr end without AttributeError
Reads(a) == a.kind \in {"inst", "slot"} \/ (a.kind = "prop" /\ a.fget)

Writes(obj, a) ==
    \/ a.kind \in {"inst", "slot", "empty"}
    \/ a.kind = "prop" /\ a.fset
    \/ a.kind = "absent" /\ obj.dict

Deletes(a) == a.kind \in {"inst", "slot"} \/ (a.kind = "prop" /\ a.fdel)

hasattr(obj, name) == Reads(obj.attrs[name])

\* the object after a setattr and after a delattr that did not raise
SetAttr(obj, name) ==
    LET a == obj.attrs[name] IN
    [obj EXCEPT !.attrs[name] = IF a.kind = "absent" THEN Plain("inst")
                                ELSE IF a.kind = "empty" THEN Plain("slot")
                                ELSE a]

DelAttr(obj, name) ==
    LET a == obj.attrs[name] IN
    [obj EXCEPT !.attrs[name] = IF a.kind = "inst" THEN Plain("absent")
                                ELSE IF a.kind = "slot" THEN Plain("empty")
                                ELSE a]

\* the asserts on __slots__ and __dict__
CheckLayout(obj, slots) ==
    IF slots # NoneObj
    THEN obj.slots # NoneObj /\ ~obj.dict /\ obj.slots = slots
    ELSE obj.slots = NoneObj /\ obj.dict

\* the body of the loop for one name; bound: the local p_ has a value
CheckProp(obj, prop, gettable, settable, dettable, bound) ==
    LET a == obj.attrs[prop]
        b == bound \/ Reads(a)
        o == IF Writes(obj, a) THEN SetAttr(obj, prop) ELSE obj
    IN
    IF ~hasattr(obj, prop)
    THEN [exc |-> "AssertionError", obj |-> obj, bound |-> bound]
    ELSE IF ~Reads(a) /\ prop \in gettable
    THEN [exc |-> "AssertionError", obj |-> obj, bound |-> bound]
    ELSE IF ~b
    THEN [exc |-> "UnboundLocalError", obj |-> obj, bound |-> b]
    ELSE IF ~Writes(obj, a) /\ prop \in settable
    THEN [exc |-> "AssertionError", obj |-> obj, bound |-> b]
    ELSE IF ~Deletes(o.attrs[prop]) /\ prop \in dettable
    THEN [exc |-> "AssertionError", obj |-> o, bound |-> b]
    ELSE [exc |-> "", bound |-> b,
          obj |-> IF Deletes(o.attrs[prop]) THEN DelAttr(o, prop) ELSE o]

\* for prop in props, the set taken in the order `order`
RECURSIVE PropsLoop(_, _, _, _, _, _, _)
PropsLoop(obj, order, i, gettable, settable, dettable, bound) ==
    IF i > Len(order)
    THEN [exc |-> "", obj |-> obj]
    ELSE LET r == CheckProp(obj, order[i], gettable, settable, dettable, bound) IN
         IF r.exc # ""
         THEN [exc |-> r.exc, obj |-> r.obj]
         ELSE PropsLoop(r.obj, order, i + 1, gettable, settable, dettable, r.bound)

\* the three lists of names are given as the sets of their elements
check_properties(obj, gettable, settable, dettable, slots, order) ==
    IF CheckLayout(obj, slots)
    THEN PropsLoop(obj, order, 1, gettable, settable, dettable, FALSE)
    ELSE [exc |-> "AssertionError", obj |-> obj]

\* the orders in which a set can be iterated
Orders(S) ==
    {o \in [1..Cardinality(S) -> S] : \A i, j \in DOMAIN o : i # j => o[i] # o[j]}

\* the call check_properties(obj, ...) that a test is about to make
PropertiesCall(obj, gettable, settable, dettable, slots) ==
    [op |-> "call check_properties", obj |-> obj, before |-> obj,
     gettable |-> gettable, settable |-> settable, dettable |-> dettable,
     slots |-> slots, order |-> <<>>, exc |-> ""]

\* one call, or the same call made again on the object as the last left it
CheckProperties ==
    /\ ret.op \in {"call check_properties", "check_properties"}
    /\ \E order \in Orders(ret.gettable \cup ret.settable \cup ret.dettable) :
          LET r == check_properties(ret.obj, ret.gettable, ret.settable,
                                    ret.dettable, ret.slots, order)
          IN ret' = [ret EXCEPT !.op = "check_properties", !.before = ret.obj,
                                !.obj = r.obj, !.order = order, !.exc = r.exc]
    /\ UNCHANGED <<cache, data, wrapped>>

\* ------------------------------------------------------------ specifications
Init ==
    /\ cache = [c \in Classes |-> 0]
    /\ data = <<>>
    /\ wrapped = [c \in {} |-> 0]
    /\ ret = Blank

Objects == NonCallables \cup Callables

\* what a client looks up: a non-callable, f and the decorated callables
LookupObjects == Objects \ {2}

\* collections of distinct objects, in every order
ItemSeqs ==
    {s \in UNION {[1..n -> LookupObjects] : n \in 0..MaxItems} :
        \A i, j \in DOMAIN s : i # j => s[i] # s[j]}

\* Decoration with every label sequence: a client decorates f, or the
\* callable it decorated before, then invokes, describes and deletes.
Next ==
    \/ \E names \in NameSeqs, c \in Callables \ {2} : Register(names, c, MaxDecorated)
    \/ \E c \in Wrappers, x \in Args : Invoke(c, x)
    \/ \E c \in LookupObjects : GetInfo(cache["Base"], c)
    \/ \E c \in Wrappers : DelItem(cache["Base"], c)

Spec == Init /\ [][Next]_vars

\* Invocation: decorations of f and of decorated callables with a few label
\* sequences, direct sets and deletes of their entries, and invocations.
CallNames == {<<>>, <<"idempotent", "pure">>, <<"deprecated", "deprecated">>}

NextCall ==
    \/ \E names \in CallNames, c \in Callables \ {2} : Register(names, c, MaxWrappers)
    \/ \E c \in Wrappers, x \in Args : Invoke(c, x)
    \/ \E c \in Wrappers, v \in {3, MaxMask} : SetItem(cache["Base"], c, v)
    \/ \E c \in Wrappers : DelItem(cache["Base"], c)

SpecCall == Init /\ [][NextCall]_vars

\* The lookup functions over a Registry filled by the decorator.
LookupNames == {<<"pure">>, <<"deprecated", "idempotent">>,
                <<"idempotent", "idempotent">>}

NextLookup ==
    \/ \E names \in LookupNames, c \in Originals : Register(names, c, MaxWrappers)
    \/ \E c \in LookupObjects, given \in BOOLEAN, d \in Defaults : GetInfoOne(c, given, d)
    \/ \E vs \in ItemSeqs : GetInfoVars(vs)

SpecLookup == Init /\ [][NextLookup]_vars

NextIter ==
    \/ \E names \in LookupNames, c \in {1} : Register(names, c, MaxWrappers)
    \/ \E c \in Wrappers : DelItem(cache["Base"], c)
    \/ \E items \in ItemSeqs : GetInfoIter(items)

SpecIter == Init /\ [][NextIter]_vars

\* The Registry as a singleton mapping: construction, set and delete.
NextSingleton ==
    \/ \E cls \in Classes, n \in 0..1 : New(cls, n)
    \/ \E self \in 1..Len(data), c \in NonCallables \cup Originals, v \in {0, MaxMask} :
          SetItem(self, c, v)
    \/ \E self \in 1..Len(data), c \in NonCallables \cup Originals : DelItem(self, c)

SpecSingleton == Init /\ [][NextSingleton]_vars

\* Decoding: entries stored by the decorator and by direct sets of every
\* bitmask up to MaxMask, described by get_info.
DecodeNames == {<<>>, <<"pure", "deprecated">>, <<"idempotent", "pure", "deprecated">>}

NextDecode ==
    \/ \E names \in DecodeNames, c \in {1} : Register(names, c, MaxDecorated)
    \/ \E c \in Callables \ {2}, v \in 0..MaxMask : SetItem(cache["Base"], c, v)
    \/ \E c \in LookupObjects : GetInfo(cache["Base"], c)

SpecDecode == Init /\ [][NextDecode]_vars

\* The Registry as a mapping: direct sets, gets and deletes on any hashable
\* key, descriptions, iteration and size.
NextMapping ==
    \/ \E n \in 0..1 : New("Base", n)
    \/ \E c \in NonCallables \cup Originals, v \in {0, 5, MaxMask} :
          SetItem(cache["Base"], c, v)
    \/ \E c \in NonCallables \cup Originals : DelItem(cache["Base"], c)
    \/ \E c \in NonCallables \cup Originals : GetItem(cache["Base"], c)
    \/ \E c \in NonCallables \cup Originals : GetInfo(cache["Base"], c)
    \/ Iterate(cache["Base"])
    \/ Size(cache["Base"])

SpecMapping == Init /\ [][NextMapping]_vars

\* The signature checker applied to functions of a few shapes, annotated or
\* not, defined with and without postponed evaluation of annotations.
Shapes ==
    {[args |-> <<"a">>, varargs |-> NoneObj, varkw |-> NoneObj,
      defaults |-> NoneObj, kwonlyargs |-> <<>>, kwonlydefaults |-> NoneObj],
     [args |-> <<"a", "b">>, varargs |-> StrObj("args"), varkw |-> StrObj("kwargs"),
      defaults |-> TupleObj(<<1>>), kwonlyargs |-> <<"c">>, kwonlydefaults |-> NoneObj],
     [args |-> <<"a">>, varargs |-> NoneObj, varkw |-> NoneObj,
      defaults |-> NoneObj, kwonlyargs |-> <<"c">>,
      kwonlydefaults |-> DictObj({<<"c", 0>>})]}

Declared == {{}, {<<"a", "int">>}, {<<"a", "None">>}}

Inspected ==
    {[pep563 |-> p, ann |-> d, args |-> s.args, varargs |-> s.varargs,
      varkw |-> s.varkw, defaults |-> s.defaults, kwonlyargs |-> s.kwonlyargs,
      kwonlydefaults |-> s.kwonlydefaults] :
        p \in BOOLEAN, d \in Declared, s \in Shapes}

ExpectedAnnotations ==
    {{}, {<<"a", TypeObj("int")>>}, {<<"a", StrObj("int")>>},
     {<<"a", TypeObj("NoneType")>>}, {<<"a", NoneObj>>}, {<<"a", StrObj("None")>>}}

Expected ==
    [annotations : ExpectedAnnotations,
     args : {<<"a">>, <<"a", "b">>},
     varargs : {NoneObj, StrObj("args")},
     varkw : {NoneObj, StrObj("kwargs")},
     defaults : {NoneObj, TupleObj(<<1>>)},
     kwonlyargs : {<<>>, <<"c">>},
     kwonlydefaults : {NoneObj, DictObj({<<"c", 0>>})}]

InitSignature ==
    /\ cache = [c \in Classes |-> 0]
    /\ data = <<>>
    /\ wrapped = [c \in {} |-> 0]
    /\ ret \in {SignatureCall(clb, e) : clb \in Inspected, e \in Expected}

NextSignature == CheckSignature

SpecSignature == InitSignature /\ [][NextSignature]_vars

\* The property checker applied to objects of every layout whose attribute
\* x is of any kind and whose attribute y is absent or holds a value.
AttrKinds ==
    {Plain(k) : k \in {"absent", "inst", "slot", "empty"}}
    \cup {Property(g, s, d) : g \in BOOLEAN, s \in BOOLEAN, d \in BOOLEAN}

TestObjects ==
    {o \in [slots : {NoneObj, ListObj(<<"x", "y">>), TupleObj(<<"x", "y">>)},
            dict : BOOLEAN,
            attrs : {[x |-> a, y |-> b] :
                        a \in AttrKinds,
                        b \in {Plain("absent"), Plain("inst"), Plain("slot")}}] :
        \A n \in AttrNames :
            /\ o.attrs[n].kind = "inst" => o.dict
            /\ o.attrs[n].kind \in {"slot", "empty"} => o.slots # NoneObj}

SlotsArgs == {NoneObj, ListObj(<<"x", "y">>), ListObj(<<"x">>)}

InitProperties ==
    /\ cache = [c \in Classes |-> 0]
    /\ data = <<>>
    /\ wrapped = [c \in {} |-> 0]
    /\ ret \in {PropertiesCall(o, g, s, d, sl) :
                   o \in TestObjects, g \in SUBSET AttrNames,
                   s \in SUBSET AttrNames, d \in SUBSET AttrNames,
                   sl \in SlotsArgs}

NextProperties == CheckProperties

SpecProperties == InitProperties /\ [][NextProperties]_vars

\* ================================================================== claims
BaseStore == data[cache["Base"]]

NoDup(names) == \A i, j \in DOMAIN names : i # j => names[i] # names[j]

NumLabels == Cardinality(DOMAIN LabelEnum)

\* the label names by ascending bit index
LabelsByIndex == [i \in 1..NumLabels |-> LabelName(i - 1)]

\* the labels among names, each once, by ascending bit index
AscendingNames(names) ==
    SelectSeq(LabelsByIndex, LAMBDA n : \E i \in DOMAIN names : names[i] = n)

RECURSIVE SumSet(_)
SumSet(S) == IF S = {} THEN 0 ELSE LET x == CHOOSE y \in S : TRUE IN x + SumSet(S \ {x})

\* bitwise OR of 2^ordinal over the given label names
OrMask(names) == SumSet({2 ^ LabelEnum[names[i]] : i \in DOMAIN names})

\* C1: after register(*names)(clb) with names drawn from the enumeration
\* (repeats allowed), the bitmask stored for the returned callable is the
\* bitwise OR of 2^ordinal over the names.
C1_MaskIsBitwiseOr ==
    (ret.op = "register" /\ ret.exc = "")
        => Lookup(data[ret.self], ret.clb) = OrMask(ret.names)

\* C2: after any decorations, deletions and invocations every stored bitmask
\* has only bits of valid label ordinals set: no entry holds 8 or more.
C2_OnlyLabelBits ==
    \A i \in 1..Len(data) : \A j \in 1..Len(data[i]) : data[i][j].v < 2 ^ NumLabels

\* C3: get_info called on the callable that register(*L) has just returned,
\* L duplicate-free, returns exactly the names of L by ascending bit index;
\* for the empty L the stored bitmask is 0 and the result the empty list.
C3_RoundTrip ==
    [][(/\ ret.op = "register" /\ ret.exc = "" /\ NoDup(ret.names)
        /\ ret'.op = "get_info" /\ ret'.clb = ret.clb)
       => /\ ret'.exc = ""
          /\ ret'.val = ListVal(AscendingNames(ret.names))
          /\ ret.names = <<>> => (Lookup(data[ret.self], ret.clb) = 0
                                  /\ ret'.val = ListVal(<<>>))]_vars

\* a decorated callable described as carrying all three labels
C3_Witness ==
    /\ ret.op = "get_info" /\ ret.clb \in Wrappers
    /\ ret.val = ListVal(<<"deprecated", "pure", "idempotent">>)

WarningText ==
    [deprecated |-> "Function is deprecated.", pure |-> "Function is pure.",
     idempotent |-> "Function is idempotent."]

\* one warning for each label whose bit is set in mask, by ascending bit index
LabelWarnings(mask) ==
    LET S == SelectSeq(LabelsByIndex, LAMBDA n : Bit(mask, LabelEnum[n]) = 1)
    IN [i \in 1..Len(S) |-> WarningText[S[i]]]

BitsSet(mask) == {k \in 0..mask : Bit(mask, k) = 1}

\* C4 as stated: every invocation of a decorated callable, whatever was set
\* or deleted before, emits one warning per bit set in its current bitmask,
\* by ascending bit index, then calls the wrapped callable exactly once with
\* the same argument and returns its result.
C4_InvokeAlwaysDelegates ==
    ret.op = "invoke" =>
        LET c == ret.clb
            store == data[wrapped[c].reg]
            target == wrapped[c].clb
        IN /\ IF Has(store, c)
              THEN /\ ret.before = Cardinality(BitsSet(Lookup(store, c)))
                   /\ SubSeq(ret.warns, 1, ret.before) = LabelWarnings(Lookup(store, c))
              ELSE ret.before = 0
           /\ ret.direct = <<<<target, ret.arg>>>>
           /\ target \in Originals =>
                 (ret.exc = "" /\ ret.calls = <<<<target, ret.arg>>>>
                  /\ ret.num = OrigResult(target, ret.arg))

\* C4 as amended: an invocation of a decorated callable that has an entry
\* emits one warning per label (deprecated, pure, idempotent) whose bit is
\* set in its current bitmask, by ascending bit index, then calls the wrapped
\* callable exactly once with the same argument and ends as that call ends;
\* an invocation of one that has no entry raises KeyError, emits nothing and
\* calls nothing.
C4_Invoke ==
    ret.op = "invoke" =>
        LET c == ret.clb
            store == data[wrapped[c].reg]
            target == wrapped[c].clb
        IN IF Has(store, c)
           THEN LET m == Lookup(store, c)
                    r == Call(target, ret.arg)
                IN /\ ret.before = Len(LabelWarnings(m))
                   /\ SubSeq(ret.warns, 1, ret.before) = LabelWarnings(m)
                   /\ ret.direct = <<<<target, ret.arg>>>>
                   /\ ret.warns = LabelWarnings(m) \o r.warns
                   /\ ret.exc = r.exc /\ ret.num = r.num /\ ret.calls = r.calls
                   /\ target \in Originals =>
                         /\ ret.exc = "" /\ ret.warns = LabelWarnings(m)
                         /\ ret.calls = <<<<target, ret.arg>>>>
                         /\ ret.num = OrigResult(target, ret.arg)
           ELSE /\ ret.exc = "KeyError" /\ ret.warns = <<>>
                /\ ret.direct = <<>> /\ ret.calls = <<>>

\* an invocation of a decorated f after its bitmask was set to all three labels
C4_Witness ==
    /\ ret.op = "invoke" /\ ret.exc = ""
    /\ wrapped[ret.clb].clb \in Originals
    /\ Lookup(BaseStore, ret.clb) = 7
    /\ ret.warns = <<"Function is deprecated.", "Function is pure.",
                     "Function is idempotent.">>
    /\ ret.calls = <<<<wrapped[ret.clb].clb, ret.arg>>>>

\* C5: applying the register decorator to a decorated callable that has an
\* entry overwrites that entry (the Registry does not grow and get_info of
\* that callable gives the labels of the latest registration) and emits
\* exactly one "already registered" warning.
C5_ReRegisterOverwrites ==
    [][(/\ ret'.op = "register" /\ ret'.exc = ""
        /\ ret'.arg \in Wrappers /\ Has(BaseStore, ret'.arg))
       => /\ Len(BaseStore') = Len(BaseStore)
          /\ ret'.warns = <<"already registered">>
          /\ get_info(BaseStore', ret'.arg) =
                [exc |-> "", val |-> ListVal(AscendingNames(ret'.names))]]_vars

\* C6: every construction, with or without arguments, the first included,
\* succeeds and returns the one instance of its class with its store as it
\* was; the instance of the subclass is not the instance of the base class,
\* and a set through one instance leaves the store of the other alone.
C6_Singleton ==
    [][/\ ret'.op = "new" =>
             /\ ret'.exc = "" /\ ret'.self # 0 /\ ret'.self = cache'[ret'.cls]
             /\ cache[ret'.cls] # 0 =>
                   (ret'.self = cache[ret'.cls] /\ data' = data)
       /\ (cache'["Base"] # 0 /\ cache'["Sub"] # 0) => cache'["Base"] # cache'["Sub"]
       /\ ret'.op = "set" =>
             \A i \in 1..Len(data) : i # ret'.self => data'[i] = data[i]]_vars

\* the labels whose bit is set in mask, by ascending bit index
LabelsOf(mask) == SelectSeq(LabelsByIndex, LAMBDA n : Bit(mask, LabelEnum[n]) = 1)

\* what get_info gives for a bitmask: its labels, or ValueError for a bit
\* that is no label ordinal
Described(mask) ==
    IF mask < 2 ^ NumLabels
    THEN [exc |-> "", val |-> ListVal(LabelsOf(mask))]
    ELSE [exc |-> "ValueError", val |-> NoneVal]

\* C7 as stated: getinfo on a callable with no entry raises KeyError when no
\* default is given and returns the default, whatever it is, when one is
\* given; on a callable with an entry it ends as get_info does.
C7_AnyDefaultReturned ==
    (ret.op = "getinfo" /\ callable(ret.clb)) =>
        LET store == data[ret.self] IN
        IF Has(store, ret.clb)
        THEN [exc |-> ret.exc, val |-> ret.val] = Described(Lookup(store, ret.clb))
        ELSE IF ret.given
             THEN ret.exc = "" /\ ret.val = ret.dflt
             ELSE ret.exc = "KeyError"

\* C7 as amended: on a callable with no entry getinfo raises KeyError when
\* no default is given or the default given is None, and returns any other
\* default unchanged; on a callable with an entry it ends as get_info does.
C7_Default ==
    (ret.op = "getinfo" /\ callable(ret.clb)) =>
        LET store == data[ret.self] IN
        IF Has(store, ret.clb)
        THEN [exc |-> ret.exc, val |-> ret.val] = Described(Lookup(store, ret.clb))
        ELSE IF ret.given /\ ret.dflt # NoneVal
             THEN ret.exc = "" /\ ret.val = ret.dflt
             ELSE ret.exc = "KeyError"

\* getinfo returning the empty list given as default for a callable that has
\* no entry
C7_Witness ==
    /\ ret.op = "getinfo" /\ callable(ret.clb) /\ ~Has(data[ret.self], ret.clb)
    /\ ret.given /\ ret.dflt = ListVal(<<>>)
    /\ ret.exc = "" /\ ret.val = ListVal(<<>>)

\* the callables among items that have an entry in store
Registered(store, items) ==
    {items[i] : i \in {j \in DOMAIN items : callable(items[j]) /\ Has(store, items[j])}}

\* C8: getinfoiter never raises, and returns a mapping whose keys are exactly
\* the callables among the items that have an entry, each with the label
\* list get_info gives for it.
C8_IterNeverRaises ==
    ret.op = "getinfoiter" =>
        LET store == data[ret.self] IN
        /\ ret.exc = ""
        /\ {p[1] : p \in ret.map} = Registered(store, ret.items)
        /\ \A p \in ret.map : p[2] = LabelsOf(Lookup(store, p[1]))

C10_UnknownLabel ==
    [][ret'.op = "register"
       => \/ /\ ret'.exc = ""
             /\ \A i \in DOMAIN ret'.names : ret'.names[i] \in DOMAIN LabelEnum
          \/ /\ ret'.exc = "KeyError"
             /\ wrapped' = wrapped
             /\ Len(data') >= Len(data)
             /\ \A i \in 1..Len(data') :
                   data'[i] = IF i <= Len(data) THEN data[i] ELSE EmptyStore]_vars

\* a registration that failed at its second or a later name, with an entry
\* of an earlier registration in the Registry
C10_Witness ==
    /\ ret.op = "register" /\ ret.exc = "KeyError" /\ ret.num > 1
    /\ Len(BaseStore) > 0

\* C11: for every entry whose bitmask b is in 0..7, stored by the decorator
\* or by a direct set, get_info returns (its loop having ended) the names of
\* exactly the bits set in b, each once, by strictly ascending bit index.
C11_DecodeExact ==
    (/\ ret.op = "get_info" /\ callable(ret.clb) /\ Has(data[ret.self], ret.clb)
     /\ Lookup(data[ret.self], ret.clb) \in 0..7)
    => LET b == Lookup(data[ret.self], ret.clb)
           l == ret.val.list
       IN /\ ret.exc = "" /\ ret.val.kind = "list"
          /\ Len(l) = Cardinality(BitsSet(b))
          /\ \A i \in DOMAIN l : l[i] \in DOMAIN LabelEnum /\ LabelEnum[l[i]] \in BitsSet(b)
          /\ \A i, j \in DOMAIN l : i < j => LabelEnum[l[i]] < LabelEnum[l[j]]

\* f, which only a direct set can enter, described from the bitmask 5, and a
\* decorated callable in the Registry
C11_Witness ==
    /\ ret.op = "get_info" /\ ret.clb \in Originals /\ Wrappers # {}
    /\ Has(data[ret.self], ret.clb) /\ Lookup(data[ret.self], ret.clb) = 5
    /\ ret.val = ListVal(<<"deprecated", "idempotent">>)

\* C12: get_info(x) raises ValueError (InvalidArgument) for every x that is
\* not callable, a key of the Registry or not, and KeyError (NotRegistered)
\* for every callable x that has no entry; either way the Registry is left
\* as it was.
C12_GetInfoErrors ==
    [][ret'.op = "get_info" =>
          /\ ~callable(ret'.clb) => ret'.exc = "ValueError"
          /\ (callable(ret'.clb) /\ ~Has(data[ret'.self], ret'.clb))
                => ret'.exc = "KeyError"
          /\ ret'.exc # "" => (data' = data /\ cache' = cache)]_vars

\* get_info refusing a key of the Registry that is not callable
C12_Witness ==
    /\ ret.op = "get_info" /\ ~callable(ret.clb) /\ Has(data[ret.self], ret.clb)
    /\ Lookup(data[ret.self], ret.clb) = 5 /\ ret.exc = "ValueError"

\* C13: a get or a delete of a callable that has no entry raises KeyError
\* (NotRegistered) and leaves the Registry as it was; a delete of a callable
\* that has an entry removes exactly that entry: the size drops by one, every
\* other entry keeps its bitmask, and a get or delete of the same callable
\* right after it raises KeyError.
C13_GetAndDelete ==
    [][(ret'.op \in {"get", "del"} /\ callable(ret'.clb)) =>
          LET s == data[ret'.self]
              t == data'[ret'.self]
              c == ret'.clb
          IN /\ \A i \in 1..Len(data) : i # ret'.self => data'[i] = data[i]
             /\ IF ~Has(s, c)
                THEN ret'.exc = "KeyError" /\ t = s
                ELSE /\ ret'.exc = ""
                     /\ ret'.op = "get" => (ret'.num = Lookup(s, c) /\ t = s)
                     /\ ret'.op = "del" =>
                           /\ ~Has(t, c) /\ len(t) = len(s) - 1
                           /\ Keys(t) = Keys(s) \ {c}
                           /\ \A k \in Keys(t) : Lookup(t, k) = Lookup(s, k)
                     /\ ~(ret.op = "del" /\ ret.exc = "" /\ ret.clb = c
                          /\ ret.self = ret'.self)]_vars

\* f deleted from a Registry that keeps its two other entries, with
\* different bitmasks
C13_Witness ==
    /\ ret.op = "del" /\ ret.exc = "" /\ ret.clb = 1
    /\ Keys(data[ret.self]) = {0, 2}
    /\ Lookup(data[ret.self], 0) # Lookup(data[ret.self], 2)

\* C16: iterating the Registry yields every key it holds exactly once, a set
\* of a new key adds it at the end of the iteration order, a set of a key
\* that has an entry and a failed delete leave the order as it was, a delete
\* removes its key and keeps the order of the others, and the size is the
\* number of keys yielded.
C16_InsertionOrder ==
    [][/\ \A i \in 1..Len(data') :
             /\ NoDup(iter(data'[i]))
             /\ {iter(data'[i])[j] : j \in 1..Len(iter(data'[i]))} = Keys(data'[i])
             /\ len(data'[i]) = Len(iter(data'[i]))
       /\ ret'.op = "set" =>
             iter(data'[ret'.self]) =
                IF Has(data[ret'.self], ret'.clb)
                THEN iter(data[ret'.self])
                ELSE Append(iter(data[ret'.self]), ret'.clb)
       /\ ret'.op = "set" => Lookup(data'[ret'.self], ret'.clb) = ret'.num
       /\ ret'.op = "del" =>
             iter(data'[ret'.self]) =
                SelectSeq(iter(data[ret'.self]), LAMBDA k : k # ret'.clb)
       /\ ret'.op = "iter" => (ret'.items = iter(data[ret'.self]) /\ data' = data)
       /\ ret'.op = "len" => (ret'.num = Len(iter(data[ret'.self])) /\ data' = data)]_vars

\* an iteration that yields g, the non-callable key and f, in the order of
\* their insertion
C16_Witness ==
    /\ ret.op = "iter" /\ ret.items = <<2, 0, 1>>
    /\ Lookup(data[ret.self], 2) = 5

\* C14: check_signature passes if and only if each of the seven expected
\* fields equals what introspection gives for the callable, the expected
\* annotations being compared with the resolved type hints and not with
\* their text.
C14_PassesIffResolvedMatch ==
    ret.op = "check_signature" =>
        LET gfas == getfullargspec(ret.clb) IN
        (ret.exc = "") <=>
            /\ ret.expected.annotations = get_type_hints(ret.clb)
            /\ \A i \in 2..Len(SignatureAttrs) :
                  ret.expected[SignatureAttrs[i]] = gfas[SignatureAttrs[i]]

\* an attribute is there: a value in __dict__ or in a slot, or a property
Exists(a) == a.kind \in {"inst", "slot", "prop"}

\* C15: once the layout asserts have passed, check_properties fails exactly
\* when one of the names in the union of the three role sets is not there or
\* does not support a role claimed for it; that a name fails to be read,
\* written or deleted without the role being claimed for it makes no
\* difference.
C15_FailsIffClaimedRoleFails ==
    (ret.op = "check_properties" /\ CheckLayout(ret.before, ret.slots)) =>
        LET o == ret.before IN
        (ret.exc # "") <=>
            \E p \in ret.gettable \cup ret.settable \cup ret.dettable :
                \/ ~Exists(o.attrs[p])
                \/ p \in ret.gettable /\ ~Reads(o.attrs[p])
                \/ p \in ret.settable /\ ~Writes(o, o.attrs[p])
                \/ p \in ret.dettable /\ ~Deletes(o.attrs[p])

\* C17: every application of the register decorator that succeeds, to f, to
\* f again or to a decorated callable, creates a callable that was no key of
\* the Registry and wraps the one given, and adds one entry for it: the size
\* grows by one and every entry there was keeps its bitmask.
C17_FreshEntry ==
    [][(ret'.op = "register" /\ ret'.exc = "") =>
          LET s == IF cache["Base"] = 0 THEN EmptyStore ELSE BaseStore
              t == data'[ret'.self]
              w == ret'.clb
          IN /\ ret'.self = cache'["Base"]
             /\ w \notin Callables /\ ~Has(s, w)
             /\ Wrappers' = Wrappers \cup {w} /\ wrapped'[w].clb = ret'.arg
             /\ \A c \in Wrappers : wrapped'[c] = wrapped[c]
             /\ Has(t, w) /\ len(t) = len(s) + 1
             /\ Keys(t) = Keys(s) \cup {w}
             /\ \A k \in Keys(s) : Lookup(t, k) = Lookup(s, k)]_vars

\* the decoration of a decorated callable, which keeps its own entry and
\* bitmask next to the new one
C17_Witness ==
    /\ ret.op = "register" /\ ret.exc = "" /\ ret.arg \in Wrappers
    /\ Keys(BaseStore) = {ret.arg, ret.clb} /\ ret.arg # ret.clb
    /\ Lookup(BaseStore, ret.arg) = MaxMask /\ Lookup(BaseStore, ret.clb) = 6

\* C18: the entry of a decorated callable goes only by a delete of it and,
\* once gone, comes back only by a set of it; as long as it is gone every
\* invocation of that callable raises KeyError, emits no warning, calls
\* neither the callable it wraps nor any plain function, and leaves the
\* Registry as it is.
C18_DeletedRaises ==
    [][/\ \A c \in Wrappers :
             /\ (Has(BaseStore, c) /\ ~Has(BaseStore', c))
                   => (ret'.op = "del" /\ ret'.clb = c /\ ret'.exc = "")
             /\ (~Has(BaseStore, c) /\ Has(BaseStore', c))
                   => (ret'.op = "set" /\ ret'.clb = c)
       /\ (ret'.op = "invoke" /\ ~Has(BaseStore, ret'.clb)) =>
             /\ ret'.exc = "KeyError" /\ ret'.warns = <<>>
             /\ ret'.direct = <<>> /\ ret'.calls = <<>>
             /\ data' = data]_vars

\* an invocation that fails on the deleted entry of a decorated callable
\* while the callable it wraps still has its own
C18_Witness ==
    /\ ret.op = "invoke" /\ ret.exc = "KeyError" /\ ~Has(BaseStore, ret.clb)
    /\ wrapped[ret.clb].clb \in Wrappers /\ Has(BaseStore, wrapped[ret.clb].clb)
    /\ ret.warns = <<>> /\ ret.calls = <<>>
====
